---------------------------- MODULE Spec2Model ----------------------------
(***************************************************************************)
(* Banking account API (src/resources/accountsResource.py) as a state      *)
(* machine.  The shared state is the MongoDB store: the accounts           *)
(* collection (unique index on id), the transactions collection and the    *)
(* sequences collection.  Request handlers run concurrently; one action    *)
(* of the model is one store round trip of a handler together with the     *)
(* local computation (validation, response building) around it.            *)
(*                                                                         *)
(* Money is counted in integer units (cents).  Timestamps are the values   *)
(* of a clock that ticks at every log_transaction call.                    *)
(***************************************************************************)
EXTENDS Integers, Sequences, FiniteSets, TLC

(***************************************************************************)
(* Bounds of the model.                                                    *)
(***************************************************************************)
\* Number of requests the handlers take over a behaviour.
MaxRequests == 4
\* Largest amount of a Deposit/Withdraw request.
MaxAmount == 2

\* The concurrent request handlers.
Procs == {"h1", "h2"}

(***************************************************************************)
(* Program constants.                                                      *)
(***************************************************************************)
\* len(initial_accounts)
SeedCount == 4

Active == "Active"
Blocked == "Blocked"
Closed == "Closed"

\* The seed documents of get_mongo_db, balances in cents.
initial_accounts ==
  << [name |-> "Dheekshith B G", balance |-> 100050, status |-> Active,
      no_of_months |-> 12, address |-> "123 Main St, Anytown"],
     [name |-> "Ninad Agarwal", balance |-> 50000, status |-> Active,
      no_of_months |-> 6, address |-> "456 Oak Ave, Othercity"],
     [name |-> "Mouneesh", balance |-> 20000, status |-> Active,
      no_of_months |-> 24, address |-> "789 Pine Ln, Somewhere"],
     [name |-> "Mahith", balance |-> 50000, status |-> Active,
      no_of_months |-> 25, address |-> "789 Pine Ln, Somewhere"] >>

(***************************************************************************)
(* Input sets of the requests.                                             *)
(***************************************************************************)
\* Ids a request may name: the first id Create assigns (absent until then).
\* Accounts created after it, like the seeded ones, are bystanders.
TargetIds == {SeedCount + 1}
\* Amounts of Deposit/Withdraw requests; 0 and -1 fail validation.
Amounts == (-1)..MaxAmount
\* Balances of Create requests: negative (fails validation), zero, positive.
OpeningBalances == {-1, 0, 1}
\* no_of_months of Create requests: negative (fails validation), zero,
\* positive.
CreateMonths == {-1, 0, 1}

\* Python's None, as a response body or a find_one result.
None == [none |-> TRUE]

\* The handle client[DATABASE_NAME].
Connected == [database |-> "banking"]

\* JSON values of the fields whose type a handler inspects: a number or a
\* string.
Num(v) == [num |-> v]
Str(s) == [str |-> s]

\* Request bodies of Create: JSON objects, DOMAIN = the keys present.
CreateBodies ==
  { [name |-> "Test", balance |-> Num(b), no_of_months |-> Num(m)] :
      b \in OpeningBalances, m \in CreateMonths }
  \cup { [balance |-> Num(1)],
         [name |-> "Test"],
         [name |-> "Test", balance |-> Str("abc")],
         [name |-> "Test", balance |-> Num(1), no_of_months |-> Str("six")] }

VARIABLES
  db,            \* the module's global store handle, None until first use
  accounts,      \* db.accounts: id -> document, DOMAIN = ids present
  transactions,  \* db.transactions: documents in insertion order
  sequences,     \* db.sequences: namespace -> sequence_value
  clock,         \* datetime.now(UTC), advanced by log_transaction
  pc,            \* per handler: the store call it is about to make
  req,           \* per handler: the parsed request (id, amount, ...)
  resp,          \* per handler: the response (code, message, body)
  opening,       \* history: id -> balance the account was created with
  issued,        \* history: values returned by get_next_sequence, in order
  started        \* history: number of requests taken so far

vars == <<db, accounts, transactions, sequences, clock, pc, req, resp,
          opening, issued, started>>

(***************************************************************************)
(* Store primitives.                                                       *)
(***************************************************************************)
\* db.accounts.find_one({"id": id})
find_one(accts, id) == IF id \in DOMAIN accts THEN accts[id] ELSE None

\* db.accounts.insert_one(doc)
insert_one(accts, doc) ==
  [i \in DOMAIN accts \cup {doc.id} |-> IF i = doc.id THEN doc ELSE accts[i]]

\* db.accounts.delete_one({"id": id})
delete_one(accts, id) == [i \in DOMAIN accts \ {id} |-> accts[i]]

\* A cascade that removes nothing.
delete_nothing(txns, id) == txns

\* db.transactions.delete_many({"account_id": id})
delete_many(txns, id) == SelectSeq(txns, LAMBDA t : t.account_id # id)

\* A sequence update that forgets the $inc.
NextSequenceValueNoInc(seqs, name) == seqs[name]

\* The value $inc leaves in (and return_document=True returns from) a
\* sequence document.
NextSequenceValue(seqs, name) == seqs[name] + 1

\* format_account: defaults for missing fields.
format_account(doc) ==
  [k \in DOMAIN doc \cup {"no_of_months", "address"} |->
     IF k \in DOMAIN doc THEN doc[k]
     ELSE IF k = "no_of_months" THEN 0 ELSE "N/A"]

Response(code, msg, status, body) ==
  [code |-> code, msg |-> msg, status |-> status, body |-> body]

NoResp == Response(0, "", "", None)
NoReq == [op |-> "", id |-> 0, amount |-> 0]

\* A request as the handler holds it: the route, the account id and amount
\* it names, and its JSON body.
Request(op, id, amount, data) ==
  [op |-> op, id |-> id, amount |-> amount, data |-> data]

\* The state get_mongo_db leaves on first use against an empty store.
SeededAccounts ==
  [i \in 1..SeedCount |->
     [id |-> i, name |-> initial_accounts[i].name,
      balance |-> initial_accounts[i].balance,
      status |-> initial_accounts[i].status,
      no_of_months |-> initial_accounts[i].no_of_months,
      address |-> initial_accounts[i].address]]

\* A seeding that leaves the counter at the value it was inserted with.
SeededSequencesZero == [n \in {"account_id"} |-> 0]

\* The counter document after seeding: inserted at 0, then raised by the
\* number of seeded accounts.
SeededSequences == [n \in {"account_id"} |-> 0 + SeedCount]

Init ==
  /\ db = Connected
  /\ accounts = SeededAccounts
  /\ transactions = << >>
  /\ sequences = SeededSequences
  /\ clock = 0
  /\ pc = [p \in Procs |-> "idle"]
  /\ req = [p \in Procs |-> NoReq]
  /\ resp = [p \in Procs |-> NoResp]
  /\ opening = [i \in 1..SeedCount |-> initial_accounts[i].balance]
  /\ issued = << >>
  /\ started = 0

\* A handler finishes with a response.
Finish(p, r) ==
  /\ pc' = [pc EXCEPT ![p] = "done"]
  /\ resp' = [resp EXCEPT ![p] = r]

Goto(p, label) ==
  /\ pc' = [pc EXCEPT ![p] = label]
  /\ resp' = resp

\* The handler holds request r, with its locals l, from here on.
Hold(p, r, l) ==
  req' = [req EXCEPT ![p] =
            [k \in DOMAIN r \cup DOMAIN l |->
               IF k \in DOMAIN l THEN l[k] ELSE r[k]]]

NoLocals == [k \in {} |-> 0]

\* An idle handler takes a request; its get_mongo_db() returns the handle
\* that is already there.
Take(p) ==
  /\ pc[p] = "idle"
  /\ db = Connected
  /\ UNCHANGED db
  /\ started < MaxRequests
  /\ started' = started + 1

\* The response has been sent; the handler is idle again.
Return(p) ==
  /\ pc[p] = "done"
  /\ UNCHANGED <<started, db>>
  /\ pc' = [pc EXCEPT ![p] = "idle"]
  /\ req' = [req EXCEPT ![p] = NoReq]
  /\ resp' = [resp EXCEPT ![p] = NoResp]
  /\ UNCHANGED <<accounts, transactions, sequences, clock, opening, issued>>


(***************************************************************************)
(* Sequence generator.                                                     *)
(***************************************************************************)
\* get_next_sequence(name): one find_one_and_update with $inc, upsert and
\* return_document=True; yields the new store and the value returned.
get_next_sequence(seqs, name) ==
  LET v == IF name \in DOMAIN seqs THEN NextSequenceValue(seqs, name) ELSE 1
  IN  [seqs |-> [n \in DOMAIN seqs \cup {name} |->
                   IF n = name THEN v ELSE seqs[n]],
       value |-> v]

(***************************************************************************)
(* CreateAccountResource.post                                              *)
(***************************************************************************)
\* float(data['balance']) fails on a string that is no number.
float_fails(j) == "num" \notin DOMAIN j

\* isinstance(no_of_months, int)
isinstance_int(j) == "num" \in DOMAIN j

\* data.get('no_of_months', 0)
months_of(data) ==
  IF "no_of_months" \in DOMAIN data THEN data.no_of_months ELSE Num(0)

\* A Create validation that forgets the no_of_months check.
CreateErrorNoMonths(data) ==
  IF ~ ("name" \in DOMAIN data /\ "balance" \in DOMAIN data)
  THEN "Missing required fields: name and balance"
  ELSE IF float_fails(data.balance) THEN "Invalid balance format"
  ELSE IF data.balance.num < 0 THEN "Balance cannot be negative"
  ELSE ""

\* The validation of Create: the message of the first failing check, or "".
CreateError(data) ==
  IF ~ ("name" \in DOMAIN data /\ "balance" \in DOMAIN data)
  THEN "Missing required fields: name and balance"
  ELSE IF float_fails(data.balance) THEN "Invalid balance format"
  ELSE IF data.balance.num < 0 THEN "Balance cannot be negative"
  ELSE IF ~ isinstance_int(months_of(data)) \/ months_of(data).num < 0
  THEN "no_of_months must be a non-negative integer"
  ELSE ""

\* A new account document that takes a zero balance.
initial_data_zero(account_id, data) ==
  [id |-> account_id, name |-> data.name, balance |-> 0,
   status |-> Active,
   no_of_months |-> IF isinstance_int(months_of(data))
                    THEN months_of(data).num ELSE 0,
   address |-> IF "address" \in DOMAIN data THEN data.address
               ELSE "Address not specified"]

\* The new account document of Create.
initial_data(account_id, data) ==
  [id |-> account_id, name |-> data.name, balance |-> data.balance.num,
   status |-> Active,
   no_of_months |-> IF isinstance_int(months_of(data))
                    THEN months_of(data).num ELSE 0,
   address |-> IF "address" \in DOMAIN data THEN data.address
               ELSE "Address not specified"]

\* Validation, then get_next_sequence("account_id").
CreateStart(p) ==
  /\ Take(p)
  /\ \E data \in CreateBodies :
       LET r == Request("Create", 0, 0, data)
       IN  IF CreateError(data) # ""
           THEN /\ Finish(p, Response(400, CreateError(data), "", None))
                /\ Hold(p, r, NoLocals)
                /\ UNCHANGED <<sequences, issued>>
           ELSE LET g == get_next_sequence(sequences, "account_id")
                IN  /\ sequences' = g.seqs
                    /\ issued' = Append(issued, g.value)
                    /\ Hold(p, r, [id |-> g.value,
                                   initial_data |->
                                     initial_data(g.value, data)])
                    /\ Goto(p, "create_insert")
  /\ UNCHANGED <<accounts, transactions, clock, opening>>

\* db.accounts.insert_one(initial_data); the unique index on id refuses a
\* duplicate (the exception surfaces as a 500).
CreateInsert(p) ==
  /\ pc[p] = "create_insert"
  /\ UNCHANGED <<started, db>>
  /\ LET doc == req[p].initial_data
     IN  IF doc.id \in DOMAIN accounts
         THEN /\ Finish(p, Response(500, "DuplicateKeyError", "", None))
              /\ UNCHANGED <<accounts, opening>>
         ELSE /\ accounts' = insert_one(accounts, doc)
              /\ opening' = [i \in DOMAIN opening \cup {doc.id} |->
                               IF i = doc.id THEN doc.balance ELSE opening[i]]
              /\ Finish(p, Response(201, "", "", format_account(doc)))
  /\ UNCHANGED <<transactions, sequences, clock, req, issued>>

\* GetSingleAccountResource.get: one find_one.
Get(p) ==
  /\ Take(p)
  /\ \E id \in TargetIds :
       LET account == find_one(accounts, id)
       IN  /\ Hold(p, Request("Get", id, 0, None), NoLocals)
           /\ IF account = None
              THEN Finish(p, Response(404, "not found", "", None))
              ELSE Finish(p, Response(200, "", "", format_account(account)))
  /\ UNCHANGED <<accounts, transactions, sequences, clock, opening, issued>>

(***************************************************************************)
(* Ledger: log_transaction, Deposit, Withdraw                              *)
(***************************************************************************)
\* A log that keeps one document per account (an upsert keyed by account_id).
log_transaction_upsert(txns, account_id, type, amount, now) ==
  Append(delete_many(txns, account_id),
         [account_id |-> account_id, type |-> type,
          amount |-> amount, timestamp |-> now])

\* log_transaction(db, account_id, type, amount)
log_transaction(txns, account_id, type, amount, now) ==
  Append(txns, [account_id |-> account_id, type |-> type,
                amount |-> amount, timestamp |-> now])

\* A validation of the amount that lets zero through.
NonNegativeAmount(amount) == amount >= 0

\* The validation of Deposit and Withdraw: `amount <= 0` is refused.
PositiveAmount(amount) == ~ (amount <= 0)

\* A Deposit filter on the id alone.
DepositFilterIdOnly(doc) == TRUE

\* The filter of Deposit's find_one_and_update.
DepositFilter(doc) == doc.status = Active

\* A Deposit that $sets the balance to the amount.
DepositSet(doc, amount) == [doc EXCEPT !.balance = amount]

\* The $inc of Deposit's find_one_and_update.
DepositInc(doc, amount) == [doc EXCEPT !.balance = @ + amount]

\* History: what the account was when a conditional update matched nothing.
StatusOrAbsent(accts, id) ==
  IF id \in DOMAIN accts THEN accts[id].status ELSE "absent"

\* Validation and find_one_and_update({"id", "status": "Active"}, $inc).
\* When the update matches nothing, the handler's record keeps (as history,
\* the code holds no such value) what the account was at that moment.
DepositUpdate(p) ==
  /\ Take(p)
  /\ \E id \in TargetIds, amount \in Amounts :
       LET r == Request("Deposit", id, amount, [amount |-> amount])
       IN  IF ~ PositiveAmount(amount)
           THEN /\ Finish(p, Response(400, "Deposit amount must be positive",
                                      "", None))
                /\ Hold(p, r, NoLocals)
                /\ UNCHANGED accounts
           ELSE IF id \in DOMAIN accounts /\ DepositFilter(accounts[id])
           THEN LET result == DepositInc(accounts[id], amount)
                IN  /\ accounts' = [accounts EXCEPT ![id] = result]
                    /\ Hold(p, r, [result |-> result])
                    /\ Goto(p, "dep_log")
           ELSE /\ Hold(p, r, [unmatched |-> StatusOrAbsent(accounts, id)])
                /\ Goto(p, "dep_check")
                /\ UNCHANGED accounts
  /\ UNCHANGED <<transactions, sequences, clock, opening, issued>>

\* log_transaction(db, account_id, "Deposit", amount) and the 200 response.
DepositLog(p) ==
  /\ pc[p] = "dep_log"
  /\ UNCHANGED <<started, db>>
  /\ transactions' =
       log_transaction(transactions, req[p].id, "Deposit", req[p].amount,
                       clock + 1)
  /\ clock' = clock + 1
  /\ Finish(p, Response(200, "", "", format_account(req[p].result)))
  /\ UNCHANGED <<accounts, sequences, req, opening, issued>>

\* The follow-up find_one after an update that matched nothing.
DepositCheck(p) ==
  /\ pc[p] = "dep_check"
  /\ UNCHANGED <<started, db>>
  /\ LET account_check == find_one(accounts, req[p].id)
     IN  IF account_check = None
         THEN Finish(p, Response(404, "not found", "", None))
         ELSE Finish(p, Response(400, "Cannot deposit to account status: ",
                                 account_check.status, None))
  /\ UNCHANGED <<accounts, transactions, sequences, clock, req, opening,
                 issued>>

\* The filter of Withdraw's find_one_and_update: the id alone.
WithdrawFilter(doc) == TRUE

\* The $inc of Withdraw's find_one_and_update.
WithdrawInc(doc, amount) == [doc EXCEPT !.balance = @ - amount]

\* A funds check that also refuses a withdrawal of the whole balance.
InsufficientBalanceStrict(account, amount) == account.balance <= amount

\* The funds check of Withdraw.
InsufficientBalance(account, amount) == account.balance < amount

\* Validation, find_one and the status and funds checks.
WithdrawRead(p) ==
  /\ Take(p)
  /\ \E id \in TargetIds, amount \in Amounts :
       LET account == find_one(accounts, id)
           r == Request("Withdraw", id, amount, [amount |-> amount])
       IN  /\ Hold(p, r, NoLocals)
           /\ IF ~ PositiveAmount(amount)
              THEN Finish(p, Response(400,
                     "Withdrawal amount must be positive", "", None))
              ELSE IF account = None
              THEN Finish(p, Response(404, "not found", "", None))
              ELSE IF account.status # Active
              THEN Finish(p, Response(400,
                     "Cannot withdraw from account status: ",
                     account.status, None))
              ELSE IF InsufficientBalance(account, amount)
              THEN Finish(p, Response(400, "Insufficient balance", "", None))
              ELSE Goto(p, "wd_update")
  /\ UNCHANGED <<accounts, transactions, sequences, clock, opening, issued>>

\* find_one_and_update({"id"}, $inc -amount).
WithdrawUpdate(p) ==
  /\ pc[p] = "wd_update"
  /\ UNCHANGED <<started, db>>
  /\ LET id == req[p].id
     IN  IF id \in DOMAIN accounts /\ WithdrawFilter(accounts[id])
         THEN LET result == WithdrawInc(accounts[id], req[p].amount)
              IN  /\ accounts' = [accounts EXCEPT ![id] = result]
                  /\ Hold(p, req[p], [result |-> result])
                  /\ Goto(p, "wd_log")
         ELSE /\ Finish(p, Response(500,
                   "Withdrawal failed due to an unknown error", "", None))
              /\ UNCHANGED <<accounts, req>>
  /\ UNCHANGED <<transactions, sequences, clock, opening, issued>>

\* log_transaction(db, account_id, "Withdrawal", amount) and the 200 response.
WithdrawLog(p) ==
  /\ pc[p] = "wd_log"
  /\ UNCHANGED <<started, db>>
  /\ transactions' =
       log_transaction(transactions, req[p].id, "Withdrawal", req[p].amount,
                       clock + 1)
  /\ clock' = clock + 1
  /\ Finish(p, Response(200, "", "", format_account(req[p].result)))
  /\ UNCHANGED <<accounts, sequences, req, opening, issued>>

(***************************************************************************)
(* Lifecycle: Update, Delete, Block, Close                                 *)
(***************************************************************************)
\* Request bodies of Update: JSON objects, DOMAIN = the keys present.
UpdateBodies ==
  { [name |-> "Renamed", no_of_months |-> Num(1), address |-> "New Address",
     status |-> "Active", balance |-> 7],
    [name |-> "Renamed", no_of_months |-> Num(-1)],
    [name |-> "Renamed", no_of_months |-> Str("six")],
    [name |-> "Renamed", address |-> ""],
    [status |-> "Active", balance |-> 7] }

\* An Update that drops the fields that fail validation and keeps the rest.
UpdateFieldsLenient(data) ==
  [fields |->
     [k \in { f \in DOMAIN data \cap {"name", "no_of_months", "address"} :
                IF f = "no_of_months"
                THEN isinstance_int(data[f]) /\ data[f].num >= 0
                ELSE data[f] # "" } |->
        IF k = "no_of_months" THEN data[k].num ELSE data[k]]]

\* An Update that also takes a balance from the body.
UpdateFieldsWithBalance(data) ==
  [fields |->
     [k \in DOMAIN data \cap {"name", "address", "balance"} |-> data[k]]]

\* The update_fields Update builds, or the message of the first field that
\* fails validation.
UpdateFields(data) ==
  IF "name" \in DOMAIN data /\ data.name = ""
  THEN [error |-> "Name cannot be empty"]
  ELSE IF /\ "no_of_months" \in DOMAIN data
          /\ (~ isinstance_int(data.no_of_months) \/ data.no_of_months.num < 0)
  THEN [error |-> "no_of_months must be a non-negative integer"]
  ELSE IF "address" \in DOMAIN data /\ data.address = ""
  THEN [error |-> "Address cannot be empty"]
  ELSE [fields |->
          [k \in DOMAIN data \cap {"name", "no_of_months", "address"} |->
             IF k = "no_of_months" THEN data[k].num ELSE data[k]]]

\* A $set that leaves the address out.
SetFieldsButAddress(doc, fields) ==
  [k \in DOMAIN doc \cup DOMAIN fields |->
     IF k \in DOMAIN fields \ {"address"} THEN fields[k] ELSE doc[k]]

\* {"$set": update_fields}
SetFields(doc, fields) ==
  [k \in DOMAIN doc \cup DOMAIN fields |->
     IF k \in DOMAIN fields THEN fields[k] ELSE doc[k]]

\* UpdateAccountResource.put: validation and one find_one_and_update.
Update(p) ==
  /\ Take(p)
  /\ \E id \in TargetIds, data \in UpdateBodies :
       LET u == UpdateFields(data)
       IN  /\ Hold(p, Request("Update", id, 0, data), NoLocals)
           /\ IF "error" \in DOMAIN u
              THEN /\ Finish(p, Response(400, u.error, "", None))
                   /\ UNCHANGED accounts
              ELSE IF DOMAIN u.fields = {}
              THEN /\ Finish(p, Response(400,
                        "No valid fields provided for update", "", None))
                   /\ UNCHANGED accounts
              ELSE IF id \in DOMAIN accounts
              THEN LET result == SetFields(accounts[id], u.fields)
                   IN  /\ accounts' = [accounts EXCEPT ![id] = result]
                       /\ Finish(p, Response(200, "", "",
                                             format_account(result)))
              ELSE /\ Finish(p, Response(404, "not found", "", None))
                   /\ UNCHANGED accounts
  /\ UNCHANGED <<transactions, sequences, clock, opening, issued>>

\* A balance check that refuses only a balance above zero.
PositiveBalance(account) == account.balance > 0

\* The zero-balance check of Delete and Close: `balance != 0` is refused.
NonZeroBalance(account) == account.balance # 0

\* DeleteAccountResource.delete: find_one and the zero-balance check.
DeleteRead(p) ==
  /\ Take(p)
  /\ \E id \in TargetIds :
       LET account == find_one(accounts, id)
       IN  /\ Hold(p, Request("Delete", id, 0, None), NoLocals)
           /\ IF account = None
              THEN Finish(p, Response(404, "not found", "", None))
              ELSE IF NonZeroBalance(account)
              THEN Finish(p, Response(400,
                     "Account must have a zero balance before deletion.",
                     "", None))
              ELSE Goto(p, "del_account")
  /\ UNCHANGED <<accounts, transactions, sequences, clock, opening, issued>>

\* db.accounts.delete_one({"id": id})
DeleteAccount(p) ==
  /\ pc[p] = "del_account"
  /\ UNCHANGED <<started, db>>
  /\ accounts' = delete_one(accounts, req[p].id)
  /\ Goto(p, "del_txns")
  /\ UNCHANGED <<transactions, sequences, clock, req, opening, issued>>

\* db.transactions.delete_many({"account_id": id}) and the 200 response.
DeleteTransactions(p) ==
  /\ pc[p] = "del_txns"
  /\ UNCHANGED <<started, db>>
  /\ transactions' = delete_many(transactions, req[p].id)
  /\ Finish(p, Response(200, "deleted", "", None))
  /\ UNCHANGED <<accounts, sequences, clock, req, opening, issued>>

\* A Block filter on the id alone.
BlockFilterIdOnly(doc) == TRUE

\* The filter of Block's find_one_and_update.
BlockFilter(doc) == doc.status = Active

\* BlockAccountResource.put: find_one_and_update({"id", "status": "Active"}).
BlockUpdate(p) ==
  /\ Take(p)
  /\ \E id \in TargetIds :
       IF id \in DOMAIN accounts /\ BlockFilter(accounts[id])
       THEN LET result == [accounts[id] EXCEPT !.status = Blocked]
            IN  /\ accounts' = [accounts EXCEPT ![id] = result]
                /\ Finish(p, Response(200, "", "", format_account(result)))
                /\ Hold(p, Request("Block", id, 0, None), NoLocals)
       ELSE /\ Hold(p, Request("Block", id, 0, None), NoLocals)
            /\ Goto(p, "blk_check")
            /\ UNCHANGED accounts
  /\ UNCHANGED <<transactions, sequences, clock, opening, issued>>

\* The follow-up find_one after an update that matched nothing.
BlockCheck(p) ==
  /\ pc[p] = "blk_check"
  /\ UNCHANGED <<started, db>>
  /\ LET account_check == find_one(accounts, req[p].id)
     IN  IF account_check = None
         THEN Finish(p, Response(404, "not found", "", None))
         ELSE Finish(p, Response(200, "is already ", account_check.status,
                                 None))
  /\ UNCHANGED <<accounts, transactions, sequences, clock, req, opening,
                 issued>>

\* CloseAccountResource.put: find_one and the zero-balance check.
CloseRead(p) ==
  /\ Take(p)
  /\ \E id \in TargetIds :
       LET account == find_one(accounts, id)
       IN  /\ Hold(p, Request("Close", id, 0, None), NoLocals)
           /\ IF account = None
              THEN Finish(p, Response(404, "not found", "", None))
              ELSE IF NonZeroBalance(account)
              THEN Finish(p, Response(400,
                     "Account must have a zero balance before closing.",
                     "", None))
              ELSE Goto(p, "cls_update")
  /\ UNCHANGED <<accounts, transactions, sequences, clock, opening, issued>>

\* The filter of Close's find_one_and_update.
CloseFilter(doc) == doc.status # Closed

\* find_one_and_update({"id", "status": {"$ne": "Closed"}}, $set Closed).
CloseUpdate(p) ==
  /\ pc[p] = "cls_update"
  /\ UNCHANGED <<started, db>>
  /\ LET id == req[p].id
     IN  IF id \in DOMAIN accounts /\ CloseFilter(accounts[id])
         THEN LET result == [accounts[id] EXCEPT !.status = Closed]
              IN  /\ accounts' = [accounts EXCEPT ![id] = result]
                  /\ Finish(p, Response(200, "", "", format_account(result)))
         ELSE /\ Finish(p, Response(200, "is already Closed", "", None))
              /\ UNCHANGED accounts
  /\ UNCHANGED <<transactions, sequences, clock, req, opening, issued>>

(***************************************************************************)
(* Reports: History, Statement, Interest                                   *)
(***************************************************************************)
\* db.transactions.find({"account_id": id}): the matching documents in
\* insertion order.
find_transactions(txns, id) == SelectSeq(txns, LAMBDA t : t.account_id = id)

RECURSIVE sort_ascending(_)
\* cursor.sort("timestamp", 1): ascending, equal timestamps in find order.
sort_ascending(s) ==
  IF s = << >> THEN << >>
  ELSE LET h == Head(s)
           r == sort_ascending(Tail(s))
           k == Cardinality({ i \in 1..Len(r) :
                              r[i].timestamp < h.timestamp })
       IN  SubSeq(r, 1, k) \o << h >> \o SubSeq(r, k + 1, Len(r))

\* A history left in the order the find returned it.
unsorted(s) == s

RECURSIVE sort_descending(_)
\* list.sort(key=timestamp, reverse=True): descending, equal timestamps in
\* find order.
sort_descending(s) ==
  IF s = << >> THEN << >>
  ELSE LET h == Head(s)
           r == sort_descending(Tail(s))
           k == Cardinality({ i \in 1..Len(r) :
                              r[i].timestamp > h.timestamp })
       IN  SubSeq(r, 1, k) \o << h >> \o SubSeq(r, k + 1, Len(r))

\* TransactionHistoryResource.get: the find_one that checks the account.
HistoryRead(p) ==
  /\ Take(p)
  /\ \E id \in TargetIds :
       /\ Hold(p, Request("History", id, 0, None), NoLocals)
       /\ IF find_one(accounts, id) = None
          THEN Finish(p, Response(404, "not found", "", None))
          ELSE Goto(p, "hist_find")
  /\ UNCHANGED <<accounts, transactions, sequences, clock, opening, issued>>

\* TransactionHistoryResource.get: the find, the sort and the 200 response.
HistoryFind(p) ==
  /\ pc[p] = "hist_find"
  /\ UNCHANGED <<started, db>>
  /\ Finish(p, Response(200, "", "",
       sort_descending(find_transactions(transactions, req[p].id))))
  /\ UNCHANGED <<accounts, transactions, sequences, clock, req, opening,
                 issued>>

\* The test `t['type'] == 'deposit'` of _get_statement_data.
IsDeposit(t) == t.type = "deposit"

RECURSIVE total_net_transaction_amount(_)
\* sum(amount if type == 'deposit' else -amount)
total_net_transaction_amount(txns) ==
  IF txns = << >> THEN 0
  ELSE (IF IsDeposit(Head(txns)) THEN Head(txns).amount
        ELSE 0 - Head(txns).amount)
       + total_net_transaction_amount(Tail(txns))

RECURSIVE running_balances(_, _)
\* The forward walk that stamps each transaction with its running balance;
\* the projection of the find has dropped account_id.
running_balances(txns, current_running_balance) ==
  IF txns = << >> THEN << >>
  ELSE LET t == Head(txns)
           b == IF IsDeposit(t) THEN current_running_balance + t.amount
                ELSE current_running_balance - t.amount
       IN  << [type |-> t.type, amount |-> t.amount,
               timestamp |-> t.timestamp, running_balance |-> b] >>
           \o running_balances(Tail(txns), b)

\* _get_statement_data: the find_one that reads the account.
StatementRead(p) ==
  /\ Take(p)
  /\ \E id \in TargetIds :
       LET account == find_one(accounts, id)
       IN  IF account = None
           THEN /\ Hold(p, Request("Statement", id, 0, None), NoLocals)
                /\ Finish(p, Response(404, "not found", "", None))
           ELSE /\ Hold(p, Request("Statement", id, 0, None),
                        [account |-> account])
                /\ Goto(p, "stmt_find")
  /\ UNCHANGED <<accounts, transactions, sequences, clock, opening, issued>>

\* _get_statement_data: the sorted find and the computation, and the
\* statement AccountStatementJsonResource.get builds from it.
StatementFind(p) ==
  /\ pc[p] = "stmt_find"
  /\ UNCHANGED <<started, db>>
  /\ LET account == req[p].account
         temp_transactions ==
           sort_ascending(find_transactions(transactions, req[p].id))
         opening_balance ==
           account.balance - total_net_transaction_amount(temp_transactions)
     IN  Finish(p, Response(200, "", "",
           [account_id |-> format_account(account).id,
            account_holder |-> format_account(account).name,
            opening_balance |-> opening_balance,
            closing_balance |-> format_account(account).balance,
            transactions |->
              running_balances(temp_transactions, opening_balance)]))
  /\ UNCHANGED <<accounts, transactions, sequences, clock, req, opening,
                 issued>>

\* The accounts an Interest request may name: the seeded ones as well.
InterestIds == 1..(SeedCount + 1)

\* ANNUAL_RATE = 0.05, as a fraction: balance * (ANNUAL_RATE / 12.0 * months)
\* is balance * months * RateNum / RateDen.
RateNum == 5
RateDen == 1200

\* An Interest that turns away Closed accounts only.
InterestRefusedClosedOnly(account) == account.status = Closed

\* if account.get("status") != "Active"
InterestRefused(account) == account.status # Active

\* The interest of one month, whatever the term.
one_month_interest(account) == account.balance * RateNum

\* balance * (monthly_rate * no_of_months), times RateDen.
total_interest(account) ==
  account.balance * account.no_of_months * RateNum

\* round(n / d, 2) for an amount in cents: the nearest whole cent.  When
\* n / d lies exactly between two cents the float the code rounds is a hair
\* off the tie, to either side, and Python rounds to that side.
round_2(n, d) ==
  { q \in { n \div d, (n \div d) + 1 } :
      (q * d - n) * 2 <= d /\ (n - q * d) * 2 <= d }

\* MonthlyInterestResource.get: one find_one and the computation.
Interest(p) ==
  /\ Take(p)
  /\ \E id \in InterestIds :
       LET account == find_one(accounts, id)
       IN  /\ Hold(p, Request("Interest", id, 0, None), NoLocals)
           /\ IF account = None
              THEN Finish(p, Response(404, "not found", "", None))
              ELSE IF InterestRefused(account)
              THEN Finish(p, Response(400,
                     "Cannot calculate interest for closed or inactive account status: ",
                     account.status, None))
              ELSE IF account.no_of_months <= 0
              THEN Finish(p, Response(400,
                     "Account is not configured for monthly interest calculation (no_of_months is zero or negative).",
                     "",
                     [current_balance |-> account.balance,
                      no_of_months |-> account.no_of_months]))
              ELSE \E rounded \in round_2(total_interest(account), RateDen) :
                     Finish(p, Response(200, "", "",
                       [account_id |-> id,
                        current_balance |-> account.balance,
                        no_of_months |-> account.no_of_months,
                        annual_interest_rate |-> "5.0%",
                        calculated_interest_amount |-> rounded]))
  /\ UNCHANGED <<accounts, transactions, sequences, clock, opening, issued>>

(***************************************************************************)
(* The specification.                                                      *)
(***************************************************************************)
Next ==
  \E p \in Procs :
    \/ CreateStart(p)
    \/ CreateInsert(p)
    \/ Get(p)
    \/ Update(p)
    \/ DeleteRead(p)
    \/ DeleteAccount(p)
    \/ DeleteTransactions(p)
    \/ DepositUpdate(p)
    \/ DepositLog(p)
    \/ DepositCheck(p)
    \/ WithdrawRead(p)
    \/ WithdrawUpdate(p)
    \/ WithdrawLog(p)
    \/ BlockUpdate(p)
    \/ BlockCheck(p)
    \/ CloseRead(p)
    \/ CloseUpdate(p)
    \/ Return(p)

Spec == Init /\ [][Next]_vars

\* The seeded store after one completed Deposit of 500.00 to seeded account
\* 2: a log that holds a transaction of another account than the one the
\* requests name.
ReportsInit ==
  /\ db = Connected
  /\ accounts = [SeededAccounts EXCEPT ![2] =
                   DepositInc(SeededAccounts[2], 50000)]
  /\ transactions = log_transaction(<< >>, 2, "Deposit", 50000, 1)
  /\ sequences = SeededSequences
  /\ clock = 1
  /\ pc = [p \in Procs |-> "idle"]
  /\ req = [p \in Procs |-> NoReq]
  /\ resp = [p \in Procs |-> NoResp]
  /\ opening = [i \in 1..SeedCount |-> initial_accounts[i].balance]
  /\ issued = << >>
  /\ started = 0

\* The handlers that write the ledger or change the status, and the reports
\* that read them.
ReportsNext ==
  \E p \in Procs :
    \/ CreateStart(p)
    \/ CreateInsert(p)
    \/ DepositUpdate(p)
    \/ DepositLog(p)
    \/ DepositCheck(p)
    \/ WithdrawRead(p)
    \/ WithdrawUpdate(p)
    \/ WithdrawLog(p)
    \/ BlockUpdate(p)
    \/ BlockCheck(p)
    \/ CloseRead(p)
    \/ CloseUpdate(p)
    \/ HistoryRead(p)
    \/ HistoryFind(p)
    \/ StatementRead(p)
    \/ StatementFind(p)
    \/ Interest(p)
    \/ Return(p)

Reports == ReportsInit /\ [][ReportsNext]_vars

(***************************************************************************)
(* First use: get_mongo_db against an empty store                          *)
(***************************************************************************)
\* The store before anything was written, and no handle yet.
BootInit ==
  /\ db = None
  /\ accounts = << >>
  /\ transactions = << >>
  /\ sequences = [n \in {} |-> 0]
  /\ clock = 0
  /\ pc = [p \in Procs |-> "idle"]
  /\ req = [p \in Procs |-> NoReq]
  /\ resp = [p \in Procs |-> NoResp]
  /\ opening = << >>
  /\ issued = << >>
  /\ started = 0

\* What get_mongo_db has in hand: whether it found the handle missing (as
\* history), start_id, and the loop index i.
BootLocals(first_use, start_id, i) ==
  [op |-> "get_mongo_db", id |-> 0, amount |-> 0, first_use |-> first_use,
   start_id |-> start_id, i |-> i]

\* The steps of get_mongo_db leave the ledger and the histories alone.
BootFrame == UNCHANGED <<transactions, clock, issued>>

\* except Exception: client = None; db = None.  The return follows.
BootExcept(p) ==
  /\ db' = None
  /\ Goto(p, "boot_return")
  /\ UNCHANGED <<accounts, sequences, opening, req>>

\* A request arrives and its handler calls get_mongo_db: `if db is None`.
BootEnter(p) ==
  /\ pc[p] = "idle"
  /\ started < MaxRequests
  /\ started' = started + 1
  /\ req' = [req EXCEPT ![p] = BootLocals(db = None, 0, 0)]
  /\ IF db = None THEN Goto(p, "boot_connect") ELSE Goto(p, "boot_return")
  /\ UNCHANGED <<db, accounts, sequences, opening>>
  /\ BootFrame

\* client = MongoClient(MONGO_URI); db = client[DATABASE_NAME]
BootConnect(p) ==
  /\ pc[p] = "boot_connect"
  /\ db' = Connected
  /\ Goto(p, "boot_index")
  /\ UNCHANGED <<accounts, sequences, opening, req, started>>
  /\ BootFrame

\* db.accounts.create_index, db.transactions.create_index: nothing new for a
\* store that has them; `db` is the global, read again at every use.
BootIndex(p) ==
  /\ pc[p] = "boot_index"
  /\ IF db = None THEN BootExcept(p)
     ELSE /\ Goto(p, "boot_count")
          /\ UNCHANGED <<db, accounts, sequences, opening, req>>
  /\ UNCHANGED started
  /\ BootFrame

\* if db.accounts.count_documents({}) == 0
BootCount(p) ==
  /\ pc[p] = "boot_count"
  /\ IF db = None THEN BootExcept(p)
     ELSE /\ IF DOMAIN accounts = {} THEN Goto(p, "boot_sequence")
             ELSE Goto(p, "boot_return")
          /\ UNCHANGED <<db, accounts, sequences, opening, req>>
  /\ UNCHANGED started
  /\ BootFrame

\* db.sequences.insert_one({"_id": "account_id", "sequence_value": 0}); a
\* second document with that _id is refused.
BootSequence(p) ==
  /\ pc[p] = "boot_sequence"
  /\ IF db = None \/ "account_id" \in DOMAIN sequences THEN BootExcept(p)
     ELSE /\ sequences' = SeededSequencesZero
          /\ Goto(p, "boot_increment")
          /\ UNCHANGED <<db, accounts, opening, req>>
  /\ UNCHANGED started
  /\ BootFrame

\* find_one_and_update($inc len(initial_accounts), upsert) and start_id.
BootIncrement(p) ==
  /\ pc[p] = "boot_increment"
  /\ IF db = None THEN BootExcept(p)
     ELSE LET value == (IF "account_id" \in DOMAIN sequences
                        THEN sequences["account_id"] ELSE 0) + SeedCount
          IN  /\ sequences' = [n \in DOMAIN sequences \cup {"account_id"} |->
                                 IF n = "account_id" THEN value
                                 ELSE sequences[n]]
              /\ req' = [req EXCEPT ![p] =
                   BootLocals(req[p].first_use, value - SeedCount, 0)]
              /\ Goto(p, "boot_insert")
              /\ UNCHANGED <<db, accounts, opening>>
  /\ UNCHANGED started
  /\ BootFrame

\* One turn of the loop: account['id'] = start_id + i + 1 and
\* db.accounts.insert_one(account); the unique index refuses a duplicate.
BootInsert(p) ==
  /\ pc[p] = "boot_insert"
  /\ LET i == req[p].i
         doc == [id |-> req[p].start_id + i + 1,
                 name |-> initial_accounts[i + 1].name,
                 balance |-> initial_accounts[i + 1].balance,
                 status |-> initial_accounts[i + 1].status,
                 no_of_months |-> initial_accounts[i + 1].no_of_months,
                 address |-> initial_accounts[i + 1].address]
     IN  IF db = None \/ doc.id \in DOMAIN accounts THEN BootExcept(p)
         ELSE /\ accounts' = insert_one(accounts, doc)
              /\ opening' = [k \in DOMAIN opening \cup {doc.id} |->
                               IF k = doc.id THEN doc.balance ELSE opening[k]]
              /\ req' = [req EXCEPT ![p] =
                   BootLocals(req[p].first_use, req[p].start_id, i + 1)]
              /\ IF i + 1 = SeedCount THEN Goto(p, "boot_return")
                 ELSE Goto(p, "boot_insert")
              /\ UNCHANGED <<db, sequences>>
  /\ UNCHANGED started
  /\ BootFrame

\* return db: the global as it is now.
BootReturn(p) ==
  /\ pc[p] = "boot_return"
  /\ Finish(p, Response(0, "", "", db))
  /\ UNCHANGED <<db, accounts, sequences, opening, req, started>>
  /\ BootFrame

BootNext ==
  \E p \in Procs :
    \/ BootEnter(p)
    \/ BootConnect(p)
    \/ BootIndex(p)
    \/ BootCount(p)
    \/ BootSequence(p)
    \/ BootIncrement(p)
    \/ BootInsert(p)
    \/ BootReturn(p)
    \/ Return(p)

Boot == BootInit /\ [][BootNext]_vars

(***************************************************************************)
(* Definitions used by the properties.                                     *)
(***************************************************************************)
RECURSIVE SignedSum(_, _)
\* Sum of the logged amounts of account id: Deposits minus Withdrawals.
SignedSum(txns, id) ==
  IF txns = << >> THEN 0
  ELSE LET t == Head(txns)
           rest == SignedSum(Tail(txns), id)
       IN  IF t.account_id # id THEN rest
           ELSE IF t.type = "Deposit" THEN rest + t.amount
           ELSE rest - t.amount

Quiescent == \A p \in Procs : pc[p] \in {"idle", "done"}

\* Ids present before and after the step.
Kept == DOMAIN accounts \cap DOMAIN accounts'

\* Account id is the same document after the step, but for its balance.
SameButBalance(id) ==
  /\ DOMAIN accounts'[id] = DOMAIN accounts[id]
  /\ \A k \in DOMAIN accounts[id] \ {"balance"} :
       accounts'[id][k] = accounts[id][k]

\* The step leaves every account other than id as it is.
OthersUnchanged(id) ==
  /\ DOMAIN accounts' = DOMAIN accounts
  /\ \A i \in DOMAIN accounts \ {id} : accounts'[i] = accounts[i]

(***************************************************************************)
(* C1.  In every reachable state, also while Deposit/Withdraw requests are *)
(* part-way through their store steps, every existing account's balance    *)
(* equals its creation balance plus its logged Deposits minus its logged   *)
(* Withdrawals.                                                            *)
(***************************************************************************)
C1_BalanceEqualsLog ==
  \A id \in DOMAIN accounts :
    accounts[id].balance = opening[id] + SignedSum(transactions, id)

(***************************************************************************)
(* C2.  No account's balance is ever negative, for any interleaving of     *)
(* Create, Deposit and Withdraw (concurrent Withdraws included).           *)
(***************************************************************************)
C2_BalanceNonNegative ==
  \A id \in DOMAIN accounts : accounts[id].balance >= 0

(***************************************************************************)
(* C3.  Once an account's status is Closed its balance never changes: no   *)
(* step changes the balance of an account that is Closed before the step.  *)
(***************************************************************************)
C3_ClosedBalanceFrozen ==
  [][\A id \in Kept :
       accounts[id].status = Closed =>
         accounts'[id].balance = accounts[id].balance]_vars

(***************************************************************************)
(* C4.  The only status changes of an account over any step are            *)
(* Active -> Blocked, Active -> Closed and Blocked -> Closed.              *)
(***************************************************************************)
C4_StatusTransitions ==
  [][\A id \in Kept :
       \/ accounts'[id].status = accounts[id].status
       \/ accounts[id].status = Active
            /\ accounts'[id].status \in {Blocked, Closed}
       \/ accounts[id].status = Blocked /\ accounts'[id].status = Closed]_vars

\* A Block request on a Closed account has answered with its notice and the
\* account is still Closed.
C4_Witness ==
  \E p \in Procs :
    /\ pc[p] = "done"
    /\ resp[p].msg = "is already "
    /\ resp[p].status = Closed
    /\ req[p].id \in DOMAIN accounts
    /\ accounts[req[p].id].status = Closed

(***************************************************************************)
(* C5.  A Withdraw decrements the balance only of an account that is       *)
(* Active at the moment of the decrement.                                  *)
(***************************************************************************)
C5_WithdrawOnlyActive ==
  [][\A p \in Procs :
       (pc[p] = "wd_update" /\ pc'[p] = "wd_log") =>
         accounts[req[p].id].status = Active]_vars

(***************************************************************************)
(* C6.  Delete removes an account only when its balance is zero at the     *)
(* moment of removal.                                                      *)
(***************************************************************************)
C6_DeleteOnlyZero ==
  [][\A id \in DOMAIN accounts \ DOMAIN accounts' :
       accounts[id].balance = 0]_vars

(***************************************************************************)
(* C7.  Whenever no request is in progress, every logged transaction       *)
(* references an account that exists.                                      *)
(***************************************************************************)
C7_NoOrphans ==
  Quiescent =>
    \A i \in 1..Len(transactions) :
      transactions[i].account_id \in DOMAIN accounts

(***************************************************************************)
(* C8.  No two calls of the sequence generator return the same value, and  *)
(* each value is greater than every value returned by an earlier call.     *)
(***************************************************************************)
C8_SequenceStrictlyIncreasing ==
  \A i, j \in 1..Len(issued) : i < j => issued[i] < issued[j]

\* Two Create handlers hold a value each at the same time.
C8_Witness ==
  /\ Len(issued) >= 2
  /\ \A p \in Procs : pc[p] = "create_insert"

(***************************************************************************)
(* C9.  A Deposit of a > 0 whose conditional update runs against an Active *)
(* account adds exactly a to that account's balance, changing no other     *)
(* field and no other account, and then appends exactly one transaction    *)
(* (Deposit, a) for that account.                                          *)
(***************************************************************************)
C9_DepositEffect ==
  [][\A p \in Procs :
       /\ (pc[p] = "idle" /\ pc'[p] = "dep_check") =>
            ~ (/\ req'[p].id \in DOMAIN accounts
               /\ accounts[req'[p].id].status = Active)
       /\ (pc[p] = "idle" /\ pc'[p] = "dep_log") =>
            LET id == req'[p].id
                a == req'[p].amount
            IN  /\ a > 0
                /\ id \in DOMAIN accounts
                /\ accounts[id].status = Active
                /\ accounts'[id].balance = accounts[id].balance + a
                /\ SameButBalance(id)
                /\ OthersUnchanged(id)
                /\ transactions' = transactions
       /\ (pc[p] = "dep_log" /\ pc'[p] = "done") =>
            /\ accounts' = accounts
            /\ Len(transactions') = Len(transactions) + 1
            /\ SubSeq(transactions', 1, Len(transactions)) = transactions
            /\ LET t == transactions'[Len(transactions')]
               IN  /\ t.account_id = req[p].id
                   /\ t.type = "Deposit"
                   /\ t.amount = req[p].amount
            /\ resp'[p].code = 200]_vars

\* A Deposit of 2 has completed: logged, and added to the balance.
C9_Witness ==
  \E p \in Procs :
    /\ pc[p] = "done"
    /\ resp[p].code = 200
    /\ req[p].amount = 2
    /\ Len(transactions) = 1
    /\ transactions[1].type = "Deposit"
    /\ req[p].id \in DOMAIN accounts
    /\ accounts[req[p].id].balance = opening[req[p].id] + 2

(***************************************************************************)
(* C10.  A Deposit to an existing account that is Blocked or Closed        *)
(* changes neither the accounts nor the log, and its follow-up read of the *)
(* still Blocked or Closed account answers 400 naming the status the       *)
(* account has.                                                            *)
(***************************************************************************)
C10_DepositInactiveFails ==
  [][\A p \in Procs :
       /\ (/\ pc[p] = "idle"
           /\ pc'[p] \in {"dep_log", "dep_check"}
           /\ req'[p].id \in DOMAIN accounts
           /\ accounts[req'[p].id].status \in {Blocked, Closed}) =>
            /\ pc'[p] = "dep_check"
            /\ accounts' = accounts
            /\ transactions' = transactions
       /\ (/\ pc[p] = "dep_check"
           /\ pc'[p] = "done"
           /\ req[p].id \in DOMAIN accounts
           /\ accounts[req[p].id].status \in {Blocked, Closed}) =>
            /\ resp'[p].code = 400
            /\ resp'[p].msg = "Cannot deposit to account status: "
            /\ resp'[p].status = accounts[req[p].id].status
            /\ accounts' = accounts
            /\ transactions' = transactions]_vars

\* create(balance=0), close, deposit: "Cannot deposit to account status:
\* Closed", balance and log untouched.
C10_Witness ==
  \E p \in Procs :
    /\ pc[p] = "done"
    /\ resp[p].code = 400
    /\ resp[p].msg = "Cannot deposit to account status: "
    /\ resp[p].status = Closed
    /\ req[p].amount > 0
    /\ req[p].id \in DOMAIN accounts
    /\ accounts[req[p].id].status = Closed
    /\ accounts[req[p].id].balance = 0
    /\ transactions = << >>

\* Handler p takes a request of route op in this step.
Takes(p, op) == pc[p] = "idle" /\ pc'[p] # "idle" /\ req'[p].op = op

\* The step appends exactly one transaction (id, type, amount) to the log.
AppendsOne(id, type, amount) ==
  /\ Len(transactions') = Len(transactions) + 1
  /\ SubSeq(transactions', 1, Len(transactions)) = transactions
  /\ LET t == transactions'[Len(transactions')]
     IN  t.account_id = id /\ t.type = type /\ t.amount = amount

(***************************************************************************)
(* C11.  A Withdraw of a > 0 from an existing Active account whose balance *)
(* is below a answers 400 "Insufficient balance" and changes neither the   *)
(* accounts nor the log.  With a <= balance it passes the checks; its      *)
(* update of the still existing account lowers the balance by exactly a,   *)
(* changing nothing else, and it then appends exactly one transaction      *)
(* (Withdrawal, a) and answers 200.                                        *)
(***************************************************************************)
C11_WithdrawFunds ==
  [][\A p \in Procs :
       /\ (/\ Takes(p, "Withdraw")
           /\ req'[p].amount > 0
           /\ req'[p].id \in DOMAIN accounts
           /\ accounts[req'[p].id].status = Active) =>
            /\ accounts' = accounts
            /\ transactions' = transactions
            /\ IF req'[p].amount > accounts[req'[p].id].balance
               THEN /\ pc'[p] = "done"
                    /\ resp'[p].code = 400
                    /\ resp'[p].msg = "Insufficient balance"
               ELSE pc'[p] = "wd_update"
       /\ (/\ pc[p] = "wd_update" /\ pc'[p] # "wd_update"
           /\ req[p].id \in DOMAIN accounts) =>
            LET id == req[p].id
            IN  /\ pc'[p] = "wd_log"
                /\ accounts'[id].balance = accounts[id].balance - req[p].amount
                /\ SameButBalance(id)
                /\ OthersUnchanged(id)
                /\ transactions' = transactions
       /\ (pc[p] = "wd_log" /\ pc'[p] # "wd_log") =>
            /\ pc'[p] = "done"
            /\ resp'[p].code = 200
            /\ accounts' = accounts
            /\ AppendsOne(req[p].id, "Withdrawal", req[p].amount)]_vars

\* One Withdraw took the whole balance and was logged; the next one found
\* the balance too low.
C11_Witness ==
  \E p, q \in Procs :
    /\ pc[p] = "done" /\ req[p].op = "Withdraw" /\ resp[p].code = 200
    /\ pc[q] = "done" /\ req[q].op = "Withdraw"
    /\ resp[q].msg = "Insufficient balance"
    /\ req[p].id \in DOMAIN accounts
    /\ accounts[req[p].id].balance = opening[req[p].id] - req[p].amount
    /\ Len(transactions) = 1
    /\ transactions[1].type = "Withdrawal"

(***************************************************************************)
(* C12.  A Deposit or Withdraw whose amount is <= 0 answers 400 with the   *)
(* route's "amount must be positive" message in its first step, whatever   *)
(* the state of the account it names (absent, Active, Blocked or Closed),  *)
(* and changes neither the accounts nor the log.                           *)
(***************************************************************************)
C12_NonPositiveAmountRefused ==
  [][\A p \in Procs :
       /\ (Takes(p, "Deposit") /\ req'[p].amount <= 0) =>
            /\ pc'[p] = "done"
            /\ resp'[p].code = 400
            /\ resp'[p].msg = "Deposit amount must be positive"
            /\ accounts' = accounts
            /\ transactions' = transactions
       /\ (Takes(p, "Withdraw") /\ req'[p].amount <= 0) =>
            /\ pc'[p] = "done"
            /\ resp'[p].code = 400
            /\ resp'[p].msg = "Withdrawal amount must be positive"
            /\ accounts' = accounts
            /\ transactions' = transactions]_vars

\* A Deposit of 0 to a Blocked account and a Withdraw of -1 from it have
\* both been refused.
C12_Witness ==
  \E p, q \in Procs :
    /\ pc[p] = "done" /\ req[p].op = "Deposit" /\ req[p].amount = 0
    /\ resp[p].code = 400
    /\ pc[q] = "done" /\ req[q].op = "Withdraw" /\ req[q].amount = -1
    /\ resp[q].code = 400
    /\ req[p].id \in DOMAIN accounts
    /\ req[q].id = req[p].id
    /\ accounts[req[p].id].status = Blocked

(***************************************************************************)
(* C13.  Delete and Close of an existing account, whatever its status,     *)
(* answer 400 and change nothing exactly when the balance they read is not *)
(* zero; when it is zero they go on and answer 200, Delete having removed  *)
(* the account and Close leaving it Closed.                                *)
(***************************************************************************)
C13_ZeroBalanceGate ==
  [][\A p \in Procs :
       /\ (Takes(p, "Delete") /\ req'[p].id \in DOMAIN accounts) =>
            /\ accounts' = accounts
            /\ transactions' = transactions
            /\ IF accounts[req'[p].id].balance # 0
               THEN pc'[p] = "done" /\ resp'[p].code = 400
               ELSE pc'[p] = "del_account"
       /\ (pc[p] = "del_account" /\ pc'[p] # "del_account") =>
            /\ pc'[p] = "del_txns"
            /\ DOMAIN accounts' = DOMAIN accounts \ {req[p].id}
            /\ \A i \in DOMAIN accounts' : accounts'[i] = accounts[i]
       /\ (pc[p] = "del_txns" /\ pc'[p] # "del_txns") =>
            /\ pc'[p] = "done"
            /\ resp'[p].code = 200
            /\ accounts' = accounts
       /\ (Takes(p, "Close") /\ req'[p].id \in DOMAIN accounts) =>
            /\ accounts' = accounts
            /\ transactions' = transactions
            /\ IF accounts[req'[p].id].balance # 0
               THEN pc'[p] = "done" /\ resp'[p].code = 400
               ELSE pc'[p] = "cls_update"
       /\ (/\ pc[p] = "cls_update" /\ pc'[p] # "cls_update"
           /\ req[p].id \in DOMAIN accounts) =>
            /\ pc'[p] = "done"
            /\ resp'[p].code = 200
            /\ accounts'[req[p].id] =
                 [accounts[req[p].id] EXCEPT !.status = Closed]
            /\ OthersUnchanged(req[p].id)
            /\ transactions' = transactions]_vars

\* Close was refused while the account held its opening balance of 1; once
\* the balance was withdrawn, Delete removed the account.
C13_Witness ==
  \E p, q \in Procs :
    /\ pc[p] = "done" /\ req[p].op = "Delete" /\ resp[p].code = 200
    /\ pc[q] = "done" /\ req[q].op = "Close" /\ resp[q].code = 400
    /\ req[q].id = req[p].id
    /\ req[p].id \in DOMAIN opening
    /\ opening[req[p].id] = 1
    /\ req[p].id \notin DOMAIN accounts

(***************************************************************************)
(* C14.  Block of an existing account that is already Blocked or Closed,   *)
(* and Close of an existing account that is already Closed, change no      *)
(* account and answer 200 with a notice ("is already ..."), never an       *)
(* error.                                                                  *)
(***************************************************************************)
C14_BlockCloseIdempotent ==
  [][\A p \in Procs :
       /\ (/\ Takes(p, "Block")
           /\ req'[p].id \in DOMAIN accounts
           /\ accounts[req'[p].id].status \in {Blocked, Closed}) =>
            /\ accounts' = accounts
            /\ pc'[p] = "blk_check"
       /\ (/\ pc[p] = "blk_check" /\ pc'[p] # "blk_check"
           /\ req[p].id \in DOMAIN accounts
           /\ accounts[req[p].id].status \in {Blocked, Closed}) =>
            /\ accounts' = accounts
            /\ pc'[p] = "done"
            /\ resp'[p].code = 200
            /\ resp'[p].msg = "is already "
            /\ resp'[p].status = accounts[req[p].id].status
       /\ (/\ Takes(p, "Close")
           /\ req'[p].id \in DOMAIN accounts
           /\ accounts[req'[p].id].status = Closed) =>
            /\ accounts' = accounts
            /\ pc'[p] = "cls_update"
       /\ (/\ pc[p] = "cls_update" /\ pc'[p] # "cls_update"
           /\ req[p].id \in DOMAIN accounts
           /\ accounts[req[p].id].status = Closed) =>
            /\ accounts' = accounts
            /\ pc'[p] = "done"
            /\ resp'[p].code = 200
            /\ resp'[p].msg = "is already Closed"]_vars

\* The log holds no transaction of account id.
NoTransactionsOf(txns, id) ==
  \A i \in 1..Len(txns) : txns[i].account_id # id

\* The ids of the accounts that existed once and have been deleted.
Deleted == DOMAIN opening \ DOMAIN accounts

(***************************************************************************)
(* C15.  When Delete completes with no other request in progress, it       *)
(* answers 200, the account is gone and the log holds no transaction of    *)
(* its id, whatever had been logged for it.  From then on a deleted        *)
(* account stays absent, a log without its transactions stays without them *)
(* (no handler being left to log for it), and Get for an absent id answers *)
(* 404.                                                                    *)
(***************************************************************************)
C15_DeleteCascade ==
  [][\A p \in Procs :
       /\ (/\ pc[p] = "del_txns" /\ pc'[p] # "del_txns"
           /\ \A q \in Procs \ {p} : pc[q] \in {"idle", "done"}) =>
            /\ pc'[p] = "done"
            /\ resp'[p].code = 200
            /\ req[p].id \in Deleted'
            /\ NoTransactionsOf(transactions', req[p].id)
       /\ \A id \in Deleted :
            /\ id \in Deleted'
            /\ (/\ NoTransactionsOf(transactions, id)
                /\ \A q \in Procs :
                     ~ (pc[q] \in {"dep_log", "wd_log"} /\ req[q].id = id)) =>
                 NoTransactionsOf(transactions', id)
       /\ (Takes(p, "Get") /\ req'[p].id \notin DOMAIN accounts) =>
            /\ pc'[p] = "done"
            /\ resp'[p].code = 404
            /\ resp'[p].body = None]_vars

\* An account that had a Withdrawal logged was deleted; the log holds
\* nothing of it and a Get for it was answered 404.
C15_Witness ==
  \E p, q \in Procs :
    /\ pc[p] = "done" /\ req[p].op = "Delete" /\ resp[p].code = 200
    /\ pc[q] = "done" /\ req[q].op = "Get" /\ resp[q].code = 404
    /\ req[q].id = req[p].id
    /\ req[p].id \in Deleted
    /\ clock >= 1
    /\ NoTransactionsOf(transactions, req[p].id)

(***************************************************************************)
(* C16.  A Create that answers 201 has stored exactly one new account,     *)
(* with status Active and the balance the request asked for, has left      *)
(* every other account as it was, and no step of Create appends a          *)
(* transaction.                                                            *)
(***************************************************************************)
C16_CreateEffect ==
  [][\A p \in Procs :
       /\ Takes(p, "Create") =>
            /\ accounts' = accounts
            /\ transactions' = transactions
       /\ (pc[p] = "create_insert" /\ pc'[p] # "create_insert") =>
            /\ transactions' = transactions
            /\ pc'[p] = "done"
            /\ resp'[p].code = 201 =>
                 \E new \in DOMAIN accounts' \ DOMAIN accounts :
                   /\ DOMAIN accounts' = DOMAIN accounts \cup {new}
                   /\ \A i \in DOMAIN accounts : accounts'[i] = accounts[i]
                   /\ accounts'[new].id = new
                   /\ accounts'[new].status = Active
                   /\ accounts'[new].balance = req[p].data.balance.num
                   /\ resp'[p].body.id = new
                   /\ resp'[p].body.balance = req[p].data.balance.num]_vars

\* A Create that asked for an opening balance of 1 was answered 201: the
\* account is there, Active, with balance 1, and the log is empty.
C16_Witness ==
  \E p \in Procs :
    /\ pc[p] = "done" /\ req[p].op = "Create" /\ resp[p].code = 201
    /\ req[p].data.balance.num = 1
    /\ req[p].id \in DOMAIN accounts
    /\ req[p].id \notin 1..SeedCount
    /\ accounts[req[p].id].status = Active
    /\ accounts[req[p].id].balance = 1
    /\ transactions = << >>

(***************************************************************************)
(* C17.  The sequence counter is at least every id ever assigned (the      *)
(* seeded ids, the ids of all accounts that exist or have been deleted,    *)
(* the ids handed out by get_next_sequence); the ids handed out are        *)
(* pairwise different; the id a Create is about to insert belongs to no    *)
(* account that exists or ever existed and to no other Create in progress; *)
(* and no insert has been refused as a duplicate.                          *)
(***************************************************************************)
C17_FreshIds ==
  /\ \A id \in DOMAIN opening : id <= sequences["account_id"]
  /\ \A i \in 1..Len(issued) :
       /\ issued[i] <= sequences["account_id"]
       /\ issued[i] \notin 1..SeedCount
       /\ \A j \in 1..Len(issued) : i # j => issued[i] # issued[j]
  /\ \A p \in Procs :
       /\ pc[p] = "create_insert" =>
            /\ req[p].id \notin DOMAIN opening
            /\ \A q \in Procs \ {p} :
                 pc[q] = "create_insert" => req[q].id # req[p].id
       /\ resp[p].msg # "DuplicateKeyError"

\* The first created account has been deleted, and a later Create was given
\* another id and stored its account.
C17_Witness ==
  /\ Len(issued) = 2
  /\ issued[1] \in Deleted
  /\ issued[2] \in DOMAIN accounts
  /\ \E p \in Procs :
       /\ pc[p] = "done" /\ req[p].op = "Create" /\ resp[p].code = 201
       /\ req[p].id = issued[2]

\* A Create body the validation must refuse: name or balance absent, a
\* negative balance, or a no_of_months that is no non-negative integer.
InvalidCreateBody(data) ==
  \/ "name" \notin DOMAIN data
  \/ "balance" \notin DOMAIN data
  \/ /\ "balance" \in DOMAIN data
     /\ "num" \in DOMAIN data.balance
     /\ data.balance.num < 0
  \/ /\ "no_of_months" \in DOMAIN data
     /\ \/ "num" \notin DOMAIN data.no_of_months
        \/ data.no_of_months.num < 0

C19_UpdateThenGet ==
  [][/\ \A p \in Procs :
          /\ (/\ Takes(p, "Update")
              /\ resp'[p].code = 200
              /\ {"no_of_months", "address"} \subseteq DOMAIN req'[p].data) =>
               /\ req'[p].id \in DOMAIN accounts'
               /\ accounts'[req'[p].id].no_of_months =
                    req'[p].data.no_of_months.num
               /\ accounts'[req'[p].id].address = req'[p].data.address
               /\ resp'[p].body.no_of_months = req'[p].data.no_of_months.num
               /\ resp'[p].body.address = req'[p].data.address
          /\ (Takes(p, "Get") /\ req'[p].id \in DOMAIN accounts) =>
               /\ pc'[p] = "done"
               /\ resp'[p].code = 200
               /\ resp'[p].body.no_of_months =
                    accounts[req'[p].id].no_of_months
               /\ resp'[p].body.address = accounts[req'[p].id].address
               /\ accounts' = accounts
     /\ \A id \in Kept :
          (\/ accounts'[id].no_of_months # accounts[id].no_of_months
           \/ accounts'[id].address # accounts[id].address) =>
            \E p \in Procs : Takes(p, "Update") /\ req'[p].id = id]_vars

\* An account created with no_of_months 0 and the default address was
\* updated to 1 and "New Address", and a Get returned those two values.
C19_Witness ==
  \E p, q \in Procs :
    /\ pc[p] = "done" /\ req[p].op = "Update" /\ resp[p].code = 200
    /\ req[p].data.no_of_months = Num(1)
    /\ req[p].data.address = "New Address"
    /\ pc[q] = "done" /\ req[q].op = "Get" /\ resp[q].code = 200
    /\ req[q].id = req[p].id
    /\ resp[q].body.no_of_months = 1
    /\ resp[q].body.address = "New Address"

\* The fields of an Update body that Update recognises.
Recognised(data) == DOMAIN data \cap {"name", "no_of_months", "address"}

\* An Update body with a field that must be refused: an empty name or
\* address, or a no_of_months that is no non-negative integer.
InvalidUpdateBody(data) ==
  \/ "name" \in DOMAIN data /\ data.name = ""
  \/ "address" \in DOMAIN data /\ data.address = ""
  \/ /\ "no_of_months" \in DOMAIN data
     /\ \/ "num" \notin DOMAIN data.no_of_months
        \/ data.no_of_months.num < 0

(***************************************************************************)
(* C20.  Update is one step.  If a provided field fails validation, or the *)
(* body has no recognised field, or the account is absent, it answers 400  *)
(* or 404 and no account changes.  Otherwise it answers 200 and the stored *)
(* account holds every provided recognised field, all its other fields and *)
(* all other accounts being as before.  The log never changes.             *)
(***************************************************************************)
C20_UpdateAllOrNothing ==
  [][\A p \in Procs :
       Takes(p, "Update") =>
         LET id == req'[p].id
             data == req'[p].data
         IN  /\ pc'[p] = "done"
             /\ transactions' = transactions
             /\ IF \/ InvalidUpdateBody(data)
                   \/ Recognised(data) = {}
                   \/ id \notin DOMAIN accounts
                THEN /\ accounts' = accounts
                     /\ resp'[p].code \in {400, 404}
                ELSE /\ resp'[p].code = 200
                     /\ OthersUnchanged(id)
                     /\ DOMAIN accounts'[id] = DOMAIN accounts[id]
                     /\ \A k \in DOMAIN accounts[id] :
                          accounts'[id][k] =
                            IF k \notin Recognised(data) THEN accounts[id][k]
                            ELSE IF k = "no_of_months" THEN data[k].num
                            ELSE data[k]]_vars

\* An Update with a good name and a no_of_months of -1 was refused, and the
\* account still has the name it was created with.
C20_Witness ==
  \E p \in Procs :
    /\ pc[p] = "done" /\ req[p].op = "Update" /\ resp[p].code = 400
    /\ req[p].data = [name |-> "Renamed", no_of_months |-> Num(-1)]
    /\ req[p].id \in DOMAIN accounts
    /\ accounts[req[p].id].name = "Test"

\* The positions in the log of the transactions of account id.
LoggedFor(id) ==
  { i \in 1..Len(transactions) : transactions[i].account_id = id }

(***************************************************************************)
(* C21.  History for an absent account answers 404.  For an existing       *)
(* account it answers 200 with exactly the transactions the log holds for  *)
(* that account when it is read - each of them once, none of another       *)
(* account - in descending order of timestamp; no step of History changes  *)
(* accounts or log.                                                        *)
(***************************************************************************)
C21_History ==
  [][\A p \in Procs :
       /\ Takes(p, "History") =>
            /\ accounts' = accounts
            /\ transactions' = transactions
            /\ IF req'[p].id \notin DOMAIN accounts
               THEN pc'[p] = "done" /\ resp'[p].code = 404
               ELSE pc'[p] = "hist_find"
       /\ (pc[p] = "hist_find" /\ pc'[p] # "hist_find") =>
            LET b == resp'[p].body
            IN  /\ pc'[p] = "done"
                /\ resp'[p].code = 200
                /\ accounts' = accounts
                /\ transactions' = transactions
                /\ Len(b) = Cardinality(LoggedFor(req[p].id))
                /\ \A j \in 1..Len(b) : b[j].account_id = req[p].id
                /\ \A i \in LoggedFor(req[p].id) :
                     \E j \in 1..Len(b) : b[j] = transactions[i]
                /\ \A i, j \in 1..Len(b) :
                     i < j => b[i].timestamp >= b[j].timestamp]_vars

\* After a Withdrawal and then a Deposit on the account, History returned
\* two entries, the Deposit first, while the log also holds a transaction
\* of account 2.
C21_Witness ==
  \E p, q \in Procs :
    /\ pc[p] = "done" /\ req[p].op = "Deposit" /\ resp[p].code = 200
    /\ pc[q] = "done" /\ req[q].op = "History" /\ resp[q].code = 200
    /\ req[q].id = req[p].id
    /\ Len(resp[q].body) = 2
    /\ resp[q].body[1].type = "Deposit"
    /\ resp[q].body[1].amount = req[p].amount
    /\ resp[q].body[2].type = "Withdrawal"
    /\ Len(transactions) = 3

\* Handler p completes a Statement in this step, of an account that has not
\* changed since the Statement read it and that no Deposit or Withdraw is
\* about to log for.
StatementCompletes(p) ==
  /\ pc[p] = "stmt_find" /\ pc'[p] # "stmt_find"
  /\ req[p].id \in DOMAIN accounts
  /\ accounts[req[p].id] = req[p].account
  /\ \A q \in Procs :
       ~ (pc[q] \in {"dep_log", "wd_log"} /\ req[q].id = req[p].id)

(***************************************************************************)
(* C22.  A Statement of an account on which only completed Deposits and    *)
(* Withdrawals have run reports as opening_balance the balance the account *)
(* was created with.                                                       *)
(***************************************************************************)
C22_StatementOpening ==
  [][\A p \in Procs :
       StatementCompletes(p) =>
         /\ resp'[p].code = 200
         /\ resp'[p].body.opening_balance = opening[req[p].id]]_vars

(***************************************************************************)
(* C23.  In a Statement of such an account the transactions are in         *)
(* ascending order of timestamp, they are the account's logged             *)
(* transactions, and the running balance of the k-th is the creation       *)
(* balance plus the Deposits minus the Withdrawals among the first k.      *)
(***************************************************************************)
C23_RunningBalance ==
  [][\A p \in Procs :
       StatementCompletes(p) =>
         LET ts == resp'[p].body.transactions
             logged == find_transactions(transactions, req[p].id)
         IN  /\ Len(ts) = Len(logged)
             /\ \A i, j \in 1..Len(ts) :
                  i < j => ts[i].timestamp <= ts[j].timestamp
             /\ \A k \in 1..Len(ts) :
                  /\ ts[k].type = logged[k].type
                  /\ ts[k].amount = logged[k].amount
                  /\ ts[k].running_balance =
                       opening[req[p].id]
                         + SignedSum(SubSeq(logged, 1, k), req[p].id)]_vars

C25_InterestAmount ==
  [][\A p \in Procs :
       (/\ Takes(p, "Interest")
        /\ req'[p].id \in DOMAIN accounts
        /\ accounts[req'[p].id].status = Active
        /\ accounts[req'[p].id].no_of_months > 0) =>
         LET b == accounts[req'[p].id].balance
             m == accounts[req'[p].id].no_of_months
             r == resp'[p].body.calculated_interest_amount
         IN  /\ resp'[p].code = 200
             /\ resp'[p].body.current_balance = b
             /\ resp'[p].body.no_of_months = m
             /\ 2 * (r * 1200 - b * m * 5) <= 1200
             /\ 2 * (b * m * 5 - r * 1200) <= 1200]_vars

\* Account 2 (6 months) stands at 1000.00 after its Deposit; Interest for it
\* returned 25.00.
C25_Witness ==
  \E p \in Procs :
    /\ pc[p] = "done" /\ req[p].op = "Interest" /\ resp[p].code = 200
    /\ req[p].id = 2
    /\ accounts[2].balance = opening[2] + 50000
    /\ resp[p].body.current_balance = 100000
    /\ resp[p].body.no_of_months = 6
    /\ resp[p].body.calculated_interest_amount = 2500

(***************************************************************************)
(* C26.  A Deposit whose conditional update matched no account answers 404 *)
(* only if the account was absent when that update ran, and answers 400    *)
(* only if the account was then there with a status other than Active, and *)
(* the status its message names is never Active.                           *)
(***************************************************************************)
C26_DepositErrorReflectsCause ==
  \A p \in Procs :
    (/\ pc[p] = "done" /\ req[p].op = "Deposit"
     /\ "unmatched" \in DOMAIN req[p]) =>
      /\ resp[p].code = 404 => req[p].unmatched = "absent"
      /\ resp[p].code = 400 =>
           /\ req[p].unmatched \in {Blocked, Closed}
           /\ resp[p].status # Active

(***************************************************************************)
(* C27.  Every Withdraw ends with 200, 400 or 404; none ends with the 500  *)
(* "Withdrawal failed due to an unknown error".                            *)
(***************************************************************************)
C27_WithdrawOutcomes ==
  \A p \in Procs :
    (pc[p] = "done" /\ req[p].op = "Withdraw") =>
      /\ resp[p].code \in {200, 400, 404}
      /\ resp[p].msg # "Withdrawal failed due to an unknown error"

(***************************************************************************)
(* C29.  Every account whose status is Closed has a balance of zero.       *)
(***************************************************************************)
C29_ClosedHasZeroBalance ==
  \A id \in DOMAIN accounts :
    accounts[id].status = Closed => accounts[id].balance = 0

\* No Deposit or Withdraw on account id is between its balance update and
\* its log append.
NoneToLog(id) ==
  \A p \in Procs : ~ (pc[p] \in {"dep_log", "wd_log"} /\ req[p].id = id)

(***************************************************************************)
(* C30.  Whenever no Deposit or Withdraw on an existing account is between *)
(* its balance update and its log append, the account's balance is its     *)
(* creation balance plus its logged Deposits minus its logged Withdrawals. *)
(***************************************************************************)
C30_SettledBalanceEqualsLog ==
  \A id \in DOMAIN accounts :
    NoneToLog(id) =>
      accounts[id].balance = opening[id] + SignedSum(transactions, id)

\* A created account, since Blocked, with two transactions logged that
\* raised its balance by 1 in all, and nothing left to log.
C30_Witness ==
  \E id \in DOMAIN accounts \ (1..SeedCount) :
    /\ NoneToLog(id)
    /\ Len(find_transactions(transactions, id)) = 2
    /\ accounts[id].balance = opening[id] + 1
    /\ accounts[id].status = Blocked

(***************************************************************************)
(* C28.  Once two handlers that both found the store handle missing have   *)
(* finished get_mongo_db against the empty store, the store holds exactly  *)
(* the four seed accounts under ids 1..4, the account_id counter is 4, and *)
(* each handler was returned the handle, not None.                         *)
(***************************************************************************)
C28_FirstUseRace ==
  (\A p \in Procs :
     /\ pc[p] = "done"
     /\ req[p].op = "get_mongo_db"
     /\ req[p].first_use) =>
    /\ accounts = SeededAccounts
    /\ sequences = SeededSequences
    /\ \A p \in Procs : resp[p].body = Connected

\* Handler p takes a store step, and the operation that step belongs to.
Steps(p) == pc'[p] # pc[p]
OpOfStep(p) == IF pc[p] = "idle" THEN req'[p].op ELSE req[p].op

\* The log after the step is the log before it, possibly with new documents
\* at the end.
LogOnlyGrows ==
  /\ Len(transactions') >= Len(transactions)
  /\ SubSeq(transactions', 1, Len(transactions)) = transactions

(***************************************************************************)
(* C32.  Every step of an Update, Block or Close leaves every account's    *)
(* balance and the whole transaction log as they are; every step of a      *)
(* Deposit or Withdraw leaves every account's status, name, no_of_months   *)
(* and address as they are; and every step of an operation other than      *)
(* Delete keeps each logged transaction, unchanged and in place.           *)
(***************************************************************************)
C32_FrameEffects ==
  [][\A p \in Procs :
       Steps(p) =>
         /\ OpOfStep(p) \in {"Update", "Block", "Close"} =>
              /\ transactions' = transactions
              /\ DOMAIN accounts' = DOMAIN accounts
              /\ \A id \in Kept : accounts'[id].balance = accounts[id].balance
         /\ OpOfStep(p) \in {"Deposit", "Withdraw"} =>
              /\ DOMAIN accounts' = DOMAIN accounts
              /\ \A id \in Kept : SameButBalance(id)
         /\ OpOfStep(p) # "Delete" => LogOnlyGrows]_vars

\* A created account with a positive balance has two logged transactions,
\* an Update has renamed it and a Withdraw on it has completed.
C32_Witness ==
  \E p, q \in Procs : \E id \in DOMAIN accounts \ (1..SeedCount) :
    /\ pc[p] = "done" /\ req[p].op = "Update" /\ resp[p].code = 200
    /\ pc[q] = "done" /\ req[q].op = "Withdraw" /\ resp[q].code = 200
    /\ req[p].id = id /\ req[q].id = id
    /\ Len(find_transactions(transactions, id)) = 2
    /\ accounts[id].status = Active

\* Handler p has applied a balance update to account id and has not yet
\* logged it.
AppliedNotLogged(p, id) ==
  pc[p] \in {"dep_log", "wd_log"} /\ req[p].id = id

(***************************************************************************)
(* C31.  The account's transactions are logged in the order in which their *)
(* balance updates were applied.  The transaction a handler logs gets the  *)
(* newest timestamp, so when no other update of that account is applied    *)
(* and still unlogged it is the update applied last, and the balance the   *)
(* account held right after it (the document its find_one_and_update       *)
(* returned) is the balance the account holds now: the running balance a   *)
(* Statement owes to the newest transaction.                               *)
(***************************************************************************)
C31_LogOrderIsApplyOrder ==
  [][\A p \in Procs :
       (/\ AppliedNotLogged(p, req[p].id)
        /\ pc'[p] = "done"
        /\ req[p].id \in DOMAIN accounts
        /\ \A q \in Procs \ {p} : ~ AppliedNotLogged(q, req[p].id)) =>
         accounts[req[p].id].balance = req[p].result.balance]_vars

=============================================================================
